---------------------------- MODULE Spec2Model ----------------------------
(***************************************************************************)
(* A model of cctv-ptz (src/main.go): the Pelco-D message codec, the axis  *)
(* normalizer, the joystick-to-Pelco mapper, the live control loop         *)
(* (interactive) and the record replay engine (playback and                *)
(* sendDelayedMessages).                                                   *)
(*                                                                         *)
(* A PelcoDMessage is a function from 0..6 to bytes.  A float32 or float64 *)
(* value is the record [neg, m, e] that stands for (-1)^neg * m / 2^e, so  *)
(* every float the program computes is represented exactly and the         *)
(* rounding of the one float32 division is computed bit by bit.  A text    *)
(* is a sequence of one-character strings.  A button mask (uint32) is the  *)
(* set of the positions of its set bits.                                   *)
(***************************************************************************)
EXTENDS Integers, Sequences, FiniteSets, TLC

VARIABLES
    call,   \* unit drivers: the function applied last and its arguments
    ret,    \* unit drivers: what that call returned
    build,  \* what this build's float-to-uint8 conversion does out of range
    pc,     \* where main's goroutine is (interactive or playback)
    now,    \* the wall clock, in milliseconds since the program started
    conf,   \* config.Config: Address and MaxSpeed
    serialEnabled,
    tty,    \* the serial port: nil, open or closed, and what was written to it
    record, \* interactive: the record file and the lines written to it
    console,            \* interactive: the frame lines printed
    resetTimer,
    startTime,
    lastMessage,
    js,                 \* interactive: the joystick handle: nil, open or closed
    jsObserver,         \* interactive: the buffer of listenJoystick's channel
    jsTicker,           \* interactive: the 100 ms ticker
    poller,             \* interactive: listenJoystick's goroutine
    stdinObserver,      \* interactive: listenFile's channel
    allowAddressChange, \* interactive: permits in the rate-limit channel
    rearm,              \* interactive: limitChange's goroutines, by wake time
    input,              \* playback: the lines of stdin not yet scanned
    lineCount,
    rejected,           \* playback: the parse errors printed, by kind
    built,              \* playback: history of the DelayedMessages built
    messageChannel,     \* playback: the unbuffered channel to the sender
    sender,             \* playback: sendDelayedMessages' goroutine
    sends               \* playback: history of the sendMessage calls

unitVars == <<call, ret, build>>

progVars == <<pc, now, conf, serialEnabled, tty>>

liveVars == <<record, console, resetTimer, startTime, lastMessage, js,
              jsObserver, jsTicker, poller, stdinObserver, allowAddressChange,
              rearm>>

playVars == <<input, lineCount, rejected, built, messageChannel, sender, sends>>

vars == <<unitVars, progVars, liveVars, playVars>>

-----------------------------------------------------------------------------
(* Program constants.                                                      *)

SYNC == 0
ADDR == 1
COMMAND_1 == 2
COMMAND_2 == 3
DATA_1 == 4
DATA_2 == 5
CHECKSUM == 6

AxisMax == 32767

SyncByte == 255

MenuCommand2 == 3
MenuData2 == 95

StickDeadzone == 8192
TriggerDeadzone == 1000

Byte == 0..255
FrameIdx == 0..6

\* The smallest raw axis reading an int16 joystick event can hold.
RawMin == -AxisMax - 1

-----------------------------------------------------------------------------
(* Small arithmetic helpers.                                               *)

Pow2(n) == 2 ^ n

\* floor(x / 2^n) for 0 <= x < 2^31, without forming a 2^n that large
ShiftRight(x, n) == IF n > 30 THEN 0 ELSE x \div Pow2(n)

AbsInt(x) == IF x < 0 THEN -x ELSE x

\* buffer[i] |= 1 << k on a byte
OrBit(b, k) == IF (b \div Pow2(k)) % 2 = 1 THEN b ELSE b + Pow2(k)

HasBit(b, k) == (b \div Pow2(k)) % 2 = 1

-----------------------------------------------------------------------------
(* Floating point values: (-1)^neg * m / 2^e.                              *)

Flt(neg, m, e) == [neg |-> neg, m |-> m, e |-> e]

\* float32(x) of an integer below 2^24 in magnitude: exact
FromInt(x) == Flt(x < 0, AbsInt(x), 0)

FAbs(f) == [f EXCEPT !.neg = FALSE]

FIsZero(f) == f.m = 0
FGtZero(f) == f.m > 0 /\ ~f.neg
FLtZero(f) == f.m > 0 /\ f.neg

\* |f| <= 1, that is m <= 2^e (m stays below 2^25)
FInUnit(f) == f.e >= 25 \/ f.m <= Pow2(f.e)

\* |f| = 1
FIsUnit(f) == f.e <= 25 /\ f.m = Pow2(f.e)

\* 0.5 < f
FGtHalf(f) == ~f.neg /\ f.e <= 25 /\ 2 * f.m > Pow2(f.e)

\* f = g * 2^d for significands below 2^31, without forming g * 2^d
ScalesTo(f, g, d) == d <= 30 /\ f % Pow2(d) = 0 /\ f \div Pow2(d) = g

\* The same value, whatever the representation.
FEq(f, g) ==
    \/ f.m = 0 /\ g.m = 0
    \/ /\ f.neg = g.neg
       /\ f.m > 0 /\ g.m > 0
       /\ IF f.e >= g.e THEN ScalesTo(f.m, g.m, f.e - g.e)
                         ELSE ScalesTo(g.m, f.m, g.e - f.e)

\* <<floor(r * 2^k / q), (r * 2^k) mod q>>, for r * 2^k below 2^31
DivStep(r, k, q) == <<(r * Pow2(k)) \div q, (r * Pow2(k)) % q>>

\* <<floor(p * 2^n / q), (p * 2^n) mod q>> for p < 2^16, q < 2^15 and
\* 15 <= n <= 45, by long division in three steps of at most 15 bits each
LongDiv(p, q, n) ==
    LET k2 == IF n - 15 > 15 THEN 15 ELSE n - 15
        k3 == n - 15 - k2
        s1 == DivStep(p, 15, q)
        s2 == DivStep(s1[2], k2, q)
        s3 == DivStep(s2[2], k3, q)
    IN <<(s1[1] * Pow2(k2) + s2[1]) * Pow2(k3) + s3[1], s3[2]>>

\* the least k with p * 2^k >= q, for 0 < p and q < 2^15
LeadShift(p, q) ==
    IF p >= q THEN 0
    ELSE CHOOSE k \in 1..15 : p * Pow2(k) >= q /\ p * Pow2(k - 1) < q

\* float32(p) / float32(q) for integers 0 < p < 2 * q, q < 2^15: the quotient
\* rounded to a 24-bit significand, ties to even.
F32Div(neg, p, q) ==
    LET n == 23 + LeadShift(p, q)
        d == LongDiv(p, q, n)
        up == 2 * d[2] > q \/ (2 * d[2] = q /\ d[1] % 2 = 1)
    IN Flt(neg, IF up THEN d[1] + 1 ELSE d[1], n)

\* a * b in float64: exact while the product of the significands stays
\* below 2^53 (here below 2^31).
F64Mul(a, b) == Flt(a.neg # b.neg, a.m * b.m, a.e + b.e)

Builds == {"wrap", "saturate"}

\* uint8(f) for a float64 f: truncation toward zero when the result fits;
\* otherwise Go leaves the result to the implementation (the low byte of the
\* truncated integer, or the saturated value).
Uint8OfFloat(f) ==
    LET t == ShiftRight(f.m, f.e)
    IN IF t = 0 THEN 0
       ELSE IF ~f.neg /\ t <= 255 THEN t
       ELSE IF build = "wrap" THEN (IF f.neg THEN (256 - (t % 256)) % 256 ELSE t % 256)
       ELSE (IF f.neg THEN 0 ELSE 255)

-----------------------------------------------------------------------------
(* The Pelco-D message codec.                                              *)

ZeroMessage == [i \in FrameIdx |-> 0]

pelcoCreate == [ZeroMessage EXCEPT ![SYNC] = SyncByte]

\* uint8(addr) of an int
pelcoTo(buffer, addr) == [buffer EXCEPT ![ADDR] = addr % 256]

\* the sum of bytes 1..5 kept wider than a byte
ChecksumNoWrap(buffer) ==
    [buffer EXCEPT ![CHECKSUM] =
        IF buffer[ADDR] + buffer[COMMAND_1] + buffer[COMMAND_2]
              + buffer[DATA_1] + buffer[DATA_2] > 255
          THEN 255
          ELSE buffer[ADDR] + buffer[COMMAND_1] + buffer[COMMAND_2]
                 + buffer[DATA_1] + buffer[DATA_2]]

\* a sum that takes in the old checksum byte as well
ChecksumOverAll(buffer) ==
    [buffer EXCEPT ![CHECKSUM] =
        (buffer[ADDR] + buffer[COMMAND_1] + buffer[COMMAND_2]
           + buffer[DATA_1] + buffer[DATA_2] + buffer[CHECKSUM]) % 256]

pelcoChecksum(buffer) ==
    [buffer EXCEPT ![CHECKSUM] =
        (buffer[ADDR] + buffer[COMMAND_1] + buffer[COMMAND_2]
           + buffer[DATA_1] + buffer[DATA_2]) % 256]


\* The live loop's record line is written with %x of the [7]byte: two
\* lowercase hex digits per byte, the high one first, no separators.
HexDigits == <<"0", "1", "2", "3", "4", "5", "6", "7",
               "8", "9", "a", "b", "c", "d", "e", "f">>

RECURSIVE FormatHexFrom(_, _)
FormatHexFrom(message, i) ==
    IF i > CHECKSUM THEN <<>>
    ELSE <<HexDigits[(message[i] \div 16) + 1], HexDigits[(message[i] % 16) + 1]>>
           \o FormatHexFrom(message, i + 1)

\* each byte as a hex number of its own width
RECURSIVE FormatHexUnpaddedFrom(_, _)
FormatHexUnpaddedFrom(message, i) ==
    IF i > CHECKSUM THEN <<>>
    ELSE (IF message[i] < 16 THEN <<>> ELSE <<HexDigits[(message[i] \div 16) + 1]>>)
           \o <<HexDigits[(message[i] % 16) + 1]>>
           \o FormatHexUnpaddedFrom(message, i + 1)

\* %x without the leading zero of a byte below 16
FormatHexUnpadded(message) == FormatHexUnpaddedFrom(message, SYNC)

FormatHex(message) == FormatHexFrom(message, SYNC)

\* encoding/hex's fromHexChar: the digit's value, or -1
fromHexChar(c) ==
    CASE c = "0" -> 0 [] c = "1" -> 1 [] c = "2" -> 2 [] c = "3" -> 3
      [] c = "4" -> 4 [] c = "5" -> 5 [] c = "6" -> 6 [] c = "7" -> 7
      [] c = "8" -> 8 [] c = "9" -> 9
      [] c = "a" \/ c = "A" -> 10 [] c = "b" \/ c = "B" -> 11
      [] c = "c" \/ c = "C" -> 12 [] c = "d" \/ c = "D" -> 13
      [] c = "e" \/ c = "E" -> 14 [] c = "f" \/ c = "F" -> 15
      [] OTHER -> -1

RECURSIVE hexDecodeFrom(_, _)
\* hex.DecodeString from character j on: [err, bytes]
hexDecodeFrom(text, j) ==
    IF j > Len(text) THEN [err |-> "nil", bytes |-> <<>>]
    ELSE IF j = Len(text)
      THEN [err |-> IF fromHexChar(text[j]) < 0 THEN "InvalidByteError" ELSE "ErrLength",
            bytes |-> <<>>]
    ELSE IF fromHexChar(text[j]) < 0 \/ fromHexChar(text[j + 1]) < 0
      THEN [err |-> "InvalidByteError", bytes |-> <<>>]
    ELSE LET rest == hexDecodeFrom(text, j + 2)
         IN [err |-> rest.err,
             bytes |-> <<16 * fromHexChar(text[j]) + fromHexChar(text[j + 1])>>
                         \o rest.bytes]

hexDecodeString(text) == hexDecodeFrom(text, 1)

\* copy(message[:], bytes) copies min(7, len(bytes)) bytes and reports nothing
decodeMessage(text) ==
    LET d == hexDecodeString(text)
    IN IF d.err # "nil" THEN [message |-> ZeroMessage, err |-> d.err]
       ELSE [message |-> [i \in FrameIdx |->
                            IF i < Len(d.bytes) THEN d.bytes[i + 1] ELSE 0],
             err |-> "nil"]

-----------------------------------------------------------------------------
(* The controller layout, the axis normalizer and the input mapper.        *)

Axis(index, min, max, deadzone, inverted) ==
    [Index |-> index, Min |-> min, Max |-> max, Deadzone |-> deadzone,
     Inverted |-> inverted]

xbox ==
    [LeftAxisX    |-> Axis(0, -AxisMax, AxisMax, StickDeadzone, FALSE),
     LeftAxisY    |-> Axis(1, -AxisMax, AxisMax, StickDeadzone, TRUE),
     RightAxisX   |-> Axis(3, -AxisMax, AxisMax, StickDeadzone, FALSE),
     RightAxisY   |-> Axis(4, -AxisMax, AxisMax, StickDeadzone, TRUE),
     LeftTrigger  |-> Axis(2, -AxisMax, AxisMax, TriggerDeadzone, FALSE),
     RightTrigger |-> Axis(5, -AxisMax, AxisMax, TriggerDeadzone, FALSE),
     DPadX        |-> Axis(6, -AxisMax, AxisMax, TriggerDeadzone, FALSE),
     DPadY        |-> Axis(7, -AxisMax, AxisMax, TriggerDeadzone, FALSE),
     LeftBumper   |-> {4},
     RightBumper  |-> {5},
     A            |-> {0},
     B            |-> {1},
     X            |-> {2},
     Y            |-> {3},
     Start        |-> {7},
     Back         |-> {6},
     XBox         |-> {8}]

ptz ==
    [PanX         |-> xbox.LeftAxisX,
     PanY         |-> xbox.RightAxisY,
     ZoomIn       |-> xbox.LeftBumper,
     ZoomOut      |-> xbox.RightBumper,
     OpenIris     |-> xbox.A,
     CloseIris    |-> xbox.B,
     OpenMenu     |-> xbox.Start,
     IncPelcoAddr |-> xbox.Y,
     DecPelcoAddr |-> xbox.X,
     ResetTimer   |-> xbox.Back,
     MarkLeft     |-> xbox.LeftTrigger,
     MarkRight    |-> xbox.RightTrigger]

AxisIdx == 0..7

\* 0 != state.Buttons & mask
isPressed(state, mask) == state.Buttons \cap mask # {}

\* the scaling alone, with no deadzone cut out
normalizeAxisNoDeadzone(state, axis) ==
    LET raw == state.AxisData[axis.Index]
        value == IF axis.Inverted THEN -raw ELSE raw
    IN IF value = 0 THEN Flt(axis.Inverted, 0, 0)
       ELSE F32Div(value < 0, AbsInt(value), axis.Max)

normalizeAxis(state, axis) ==
    LET raw == state.AxisData[axis.Index]
        value == IF axis.Inverted THEN -raw ELSE raw
        deadzone == axis.Deadzone
        max == axis.Max
    IN IF value > 0 /\ value < deadzone THEN Flt(FALSE, 0, 0)
       ELSE IF value > deadzone
         THEN F32Div(FALSE, value - deadzone, max - deadzone)
       ELSE IF value < 0 /\ value > -deadzone THEN Flt(FALSE, 0, 0)
       ELSE IF value < -deadzone
         THEN F32Div(TRUE, -(value + deadzone), max - deadzone)
       \* no branch taken: 0 (negative zero when inverted), deadzone, -deadzone
       ELSE IF value = 0 THEN Flt(axis.Inverted, 0, 0)
       ELSE FromInt(value)

isMarkTriggered(state, axis) == FGtHalf(normalizeAxis(state, axis))

\* the product rounded to the nearest integer instead of truncated
SpeedByteRounded(maxSpeed, pan) ==
    LET f == F64Mul(FromInt(maxSpeed), FAbs(pan))
        half == f.e >= 1 /\ f.e <= 31 /\ ShiftRight(f.m, f.e - 1) % 2 = 1
    IN Uint8OfFloat(f) + (IF half THEN 1 ELSE 0)

\* uint8(float64(maxSpeed) * math.Abs(float64(pan)))
SpeedByte(maxSpeed, pan) == Uint8OfFloat(F64Mul(FromInt(maxSpeed), FAbs(pan)))

MenuMessage(buffer) ==
    [buffer EXCEPT ![COMMAND_1] = 0, ![COMMAND_2] = MenuCommand2,
                   ![DATA_1] = 0, ![DATA_2] = MenuData2]

PanTiltMessage(buffer, panX, panY, zoom, openIris, closeIris, maxSpeed) ==
    LET c2x == IF FGtZero(panX) THEN OrBit(buffer[COMMAND_2], 1)
               ELSE IF FLtZero(panX) THEN OrBit(buffer[COMMAND_2], 2)
               ELSE buffer[COMMAND_2]
        c2y == IF FGtZero(panY) THEN OrBit(c2x, 3)
               ELSE IF FLtZero(panY) THEN OrBit(c2x, 4)
               ELSE c2x
        c2z == IF FGtZero(zoom) THEN OrBit(c2y, 5)
               ELSE IF FLtZero(zoom) THEN OrBit(c2y, 6)
               ELSE c2y
        c1 == IF openIris THEN OrBit(buffer[COMMAND_1], 1)
              ELSE IF closeIris THEN OrBit(buffer[COMMAND_1], 2)
              ELSE buffer[COMMAND_1]
    IN [buffer EXCEPT ![COMMAND_1] = c1, ![COMMAND_2] = c2z,
                      ![DATA_1] = SpeedByte(maxSpeed, panX),
                      ![DATA_2] = SpeedByte(maxSpeed, panY)]

\* the menu branch without its return: the pan/tilt code runs on the menu frame
pelcoApplyJoystickNoReturn(buffer, panX, panY, zoom, openIris, closeIris, openMenu, maxSpeed) ==
    IF openMenu
      THEN PanTiltMessage(MenuMessage(buffer), panX, panY, zoom, openIris, closeIris,
                          maxSpeed)
      ELSE PanTiltMessage(buffer, panX, panY, zoom, openIris, closeIris, maxSpeed)

pelcoApplyJoystick(buffer, panX, panY, zoom, openIris, closeIris, openMenu, maxSpeed) ==
    IF openMenu THEN MenuMessage(buffer)
    ELSE PanTiltMessage(buffer, panX, panY, zoom, openIris, closeIris, maxSpeed)

joystickToPelco(buffer, state, maxSpeed) ==
    LET panX == normalizeAxis(state, ptz.PanX)
        panY == normalizeAxis(state, ptz.PanY)
        openIris == isPressed(state, ptz.OpenIris)
        closeIris == isPressed(state, ptz.CloseIris)
        openMenu == isPressed(state, ptz.OpenMenu)
        zoom == IF isPressed(state, ptz.ZoomOut) THEN FromInt(-1)
                ELSE IF isPressed(state, ptz.ZoomIn) THEN FromInt(1)
                ELSE FromInt(0)
    IN pelcoApplyJoystick(buffer, panX, panY, zoom, openIris, closeIris,
                          openMenu, maxSpeed)

\* The frame the live loop builds from a sample (main.go, interactive).
LiveMessage(address, sample, maxSpeed) ==
    pelcoChecksum(joystickToPelco(pelcoTo(pelcoCreate, address), sample, maxSpeed))

-----------------------------------------------------------------------------
(* Unit drivers: each step applies one function of the program to inputs   *)
(* drawn from a bounded set and keeps the call and what it returned.       *)

\* How many steps the grid of raw axis readings has between RawMin and AxisMax.
RawSteps == 96
\* How many byte patterns the sample frames are built from, per stride.
FrameSeeds == 256

MaxSpeed == 63

RawGrid == {RawMin + ((k * (AxisMax - RawMin)) \div RawSteps) : k \in 0..RawSteps}

RawEdges ==
    {0, 1, -1, 20000, -20000, AxisMax, -AxisMax, RawMin}
      \cup {s * (d + j) : s \in {-1, 1}, d \in {StickDeadzone, TriggerDeadzone},
                          j \in {-1, 0, 1}}

RawSamples == RawGrid \cup RawEdges

\* The raw readings the mapper drivers put on the pan and tilt axes.
PanRaws == {0, StickDeadzone - 1, StickDeadzone, -StickDeadzone - 1, 20000,
            -20000, AxisMax, -AxisMax}

AxisSpecs == {xbox.LeftAxisX, xbox.LeftAxisY, xbox.RightAxisX, xbox.RightAxisY,
              xbox.LeftTrigger, xbox.RightTrigger, xbox.DPadX, xbox.DPadY}

\* A controller snapshot (joystick.State) with the given readings and buttons.
Snapshot(axes, buttons) == [AxisData |-> axes, Buttons |-> buttons]

NoAxes == [i \in AxisIdx |-> 0]

AxisState(index, raw) == Snapshot([NoAxes EXCEPT ![index] = raw], {})

PanSamples ==
    {normalizeAxis(AxisState(a.Index, r), a) :
        a \in {xbox.LeftAxisX, xbox.RightAxisY}, r \in {0, 8193, 20000, AxisMax}}
      \cup {normalizeAxis(AxisState(0, StickDeadzone), xbox.LeftAxisX)}

ZoomSamples == {FromInt(-1), FromInt(0), FromInt(1)}

SpeedSamples == {0, 1, 22, 47, MaxSpeed}

AddrSamples == {0, 1, 200, 255}

StrideSamples == {0, 1, 37}

FrameSamples ==
    {[i \in FrameIdx |-> (b + k * i) % 256] : b \in 0..(FrameSeeds - 1), k \in StrideSamples}

\* Texts that are no 14-digit lowercase hex: odd length, a non-hex character,
\* too short, too long, empty, upper case.
OddTexts ==
    {<<>>, <<"f">>, <<"z", "z">>, <<"f", "f">>, <<"f", "f", "0">>,
     <<"f", "f", "0", "1">>, <<"F", "F", "0", "1", "A", "b", "0", "0", "0", "0", "0", "0", "A", "c">>,
     <<"f", "f", "0", "1", "0", "0", "0", "0", "0", "0", "0", "0", "0", "g">>,
     <<"f", "f", "0", "1", "0", "0", "0", "0", "0", "0", "0", "0", "0">>,
     <<"f", "f", "0", "1", "0", "0", "0", "0", "0", "0", "0", "0", "0", "1", "2">>,
     <<"f", "f", "0", "1", "0", "0", "0", "0", "0", "0", "0", "0", "0", "1", "2", "3">>,
     <<"f", "f", "0", "1", "0", "0", "0", "0", "0", "0", "0", "0", "0", "1", " ", "3">>}

ButtonSets == SUBSET (ptz.ZoomIn \cup ptz.ZoomOut \cup ptz.OpenIris
                        \cup ptz.CloseIris \cup ptz.OpenMenu)

NoCall == [fn |-> "none"]

\* A file handle (*os.File, *serial.Port) before it is opened.
NilFile == [state |-> "nil", written |-> <<>>]

\* The variables of interactive as its var block and first statements leave
\* them, before any goroutine has run.
LiveFresh ==
    /\ record = NilFile
    /\ console = <<>>
    /\ resetTimer = TRUE
    /\ startTime = 0
    /\ lastMessage = ZeroMessage
    /\ js = "nil"
    /\ jsObserver = <<>>
    /\ jsTicker = [on |-> FALSE, next |-> 0, pending |-> FALSE]
    /\ poller = [pc |-> "none", state |-> Snapshot(NoAxes, {}), wake |-> 0]
    /\ stdinObserver = "open"
    /\ allowAddressChange = 0
    /\ rearm = {}

NoPackage == [Message |-> ZeroMessage, Delay |-> 0]

\* The variables of playback before it has scanned a line.
PlayFresh(lines) ==
    /\ input = lines
    /\ lineCount = 0
    /\ rejected = <<>>
    /\ built = <<>>
    /\ messageChannel = [state |-> "nil", offer |-> <<>>]
    /\ sender = [pc |-> "none", pkg |-> NoPackage, wake |-> 0]
    /\ sends = <<>>

\* The clock, the configuration config.Load returned, and the var block
\* both interactive and playback open with.
ProgFresh(address, maxSpeed, enabled) ==
    /\ now = 0
    /\ conf = [Address |-> address, MaxSpeed |-> maxSpeed]
    /\ serialEnabled = enabled
    /\ tty = NilFile

\* The unit drivers run no program: main is never entered.
UnitInit ==
    /\ call = NoCall
    /\ ret = NoCall
    /\ build \in Builds
    /\ pc = "unit"
    /\ ProgFresh(0, 0, FALSE)
    /\ LiveFresh
    /\ PlayFresh(<<>>)

CallPelcoTo ==
    /\ call = NoCall
    /\ \E addr \in -1..256 :
        /\ call' = [fn |-> "pelcoTo", addr |-> addr,
                    buffer |-> pelcoTo(pelcoCreate, addr)]
        /\ ret' = [message |-> pelcoChecksum(pelcoTo(pelcoCreate, addr))]
        /\ UNCHANGED <<build, progVars, liveVars, playVars>>

CallPelcoChecksum ==
    /\ call = NoCall
    /\ \E buffer \in FrameSamples :
        /\ call' = [fn |-> "pelcoChecksum", buffer |-> buffer]
        /\ ret' = [message |-> pelcoChecksum(buffer),
                   again |-> pelcoChecksum(pelcoChecksum(buffer))]
        /\ UNCHANGED <<build, progVars, liveVars, playVars>>

CallLiveMessage ==
    /\ call = NoCall
    /\ \E addr \in AddrSamples, x \in PanRaws, y \in PanRaws,
          buttons \in {{}, ptz.OpenMenu, ptz.OpenIris \cup ptz.ZoomIn, ptz.ZoomOut},
          maxSpeed \in SpeedSamples :
        LET snap == Snapshot([NoAxes EXCEPT ![ptz.PanX.Index] = x,
                                           ![ptz.PanY.Index] = y], buttons)
        IN /\ call' = [fn |-> "LiveMessage", addr |-> addr, state |-> snap,
                       maxSpeed |-> maxSpeed]
           /\ ret' = [message |-> LiveMessage(addr, snap, maxSpeed)]
           /\ UNCHANGED <<build, progVars, liveVars, playVars>>

CallFormatDecode ==
    /\ call = NoCall
    /\ \E message \in FrameSamples :
        /\ call' = [fn |-> "FormatHex;decodeMessage", message |-> message,
                    text |-> FormatHex(message)]
        /\ ret' = decodeMessage(FormatHex(message))
        /\ UNCHANGED <<build, progVars, liveVars, playVars>>

CallDecodeMessage ==
    /\ call = NoCall
    /\ \E text \in OddTexts :
        /\ call' = [fn |-> "decodeMessage", text |-> text]
        /\ ret' = decodeMessage(text)
        /\ UNCHANGED <<build, progVars, liveVars, playVars>>

CodecNext ==
    \/ CallPelcoTo
    \/ CallPelcoChecksum
    \/ CallLiveMessage
    \/ CallFormatDecode
    \/ CallDecodeMessage

CallNormalizeAxis ==
    /\ call = NoCall
    /\ \E axis \in AxisSpecs, raw \in RawSamples :
        /\ call' = [fn |-> "normalizeAxis", axis |-> axis, raw |-> raw]
        /\ ret' = [value |-> normalizeAxis(AxisState(axis.Index, raw), axis)]
        /\ UNCHANGED <<build, progVars, liveVars, playVars>>

CallPelcoApplyJoystick ==
    /\ call = NoCall
    /\ \E panX \in PanSamples, panY \in PanSamples, zoom \in ZoomSamples,
          openIris \in BOOLEAN, closeIris \in BOOLEAN, openMenu \in BOOLEAN,
          maxSpeed \in 0..MaxSpeed :
        /\ call' = [fn |-> "pelcoApplyJoystick",
                    buffer |-> pelcoTo(pelcoCreate, 1),
                    panX |-> panX, panY |-> panY, zoom |-> zoom,
                    openIris |-> openIris, closeIris |-> closeIris,
                    openMenu |-> openMenu, maxSpeed |-> maxSpeed]
        /\ ret' = [message |-> pelcoApplyJoystick(pelcoTo(pelcoCreate, 1), panX, panY,
                                 zoom, openIris, closeIris, openMenu, maxSpeed)]
        /\ UNCHANGED <<build, progVars, liveVars, playVars>>

CallJoystickToPelco ==
    /\ call = NoCall
    /\ \E x \in PanRaws, y \in PanRaws, buttons \in ButtonSets,
          maxSpeed \in SpeedSamples :
        LET snap == Snapshot([NoAxes EXCEPT ![ptz.PanX.Index] = x,
                                           ![ptz.PanY.Index] = y], buttons)
        IN /\ call' = [fn |-> "joystickToPelco", state |-> snap,
                       maxSpeed |-> maxSpeed]
           /\ ret' = [message |-> joystickToPelco(pelcoTo(pelcoCreate, 1), snap,
                                                  maxSpeed)]
           /\ UNCHANGED <<build, progVars, liveVars, playVars>>

MapperNext ==
    \/ CallNormalizeAxis
    \/ CallPelcoApplyJoystick
    \/ CallJoystickToPelco

CodecSpec == UnitInit /\ [][CodecNext]_vars

MapperSpec == UnitInit /\ [][MapperNext]_vars

-----------------------------------------------------------------------------
(* Texts: the lines of a record file.                                      *)

DecDigits == <<"0", "1", "2", "3", "4", "5", "6", "7", "8", "9">>

RECURSIVE FormatDecNat(_)
FormatDecNat(n) ==
    IF n < 10 THEN <<DecDigits[n + 1]>>
    ELSE FormatDecNat(n \div 10) \o <<DecDigits[(n % 10) + 1]>>

\* the verb %d
FormatDec(n) == IF n < 0 THEN <<"-">> \o FormatDecNat(-n) ELSE FormatDecNat(n)

Tag == <<"p", "e", "l", "c", "o", "-", "d">>

Space == <<" ">>

\* "pelco-d %x %d\n", without the newline
RecordLine(message, millis) ==
    Tag \o Space \o FormatHex(message) \o Space \o FormatDec(millis)

MarkLeftLine == <<"#", " ", "M", "a", "r", "k", " ", "L", "e", "f", "t">>

MarkRightLine == <<"#", " ", "M", "a", "r", "k", " ", "R", "i", "g", "h", "t">>

\* f.Write / Fprintf on a file: the text lands in it while it is open
WriteTo(file, text) ==
    IF file.state = "open" THEN [file EXCEPT !.written = Append(@, text)]
    ELSE file

\* f.Close(), as a deferred call runs it
CloseFile(file) ==
    IF file.state = "open" THEN [file EXCEPT !.state = "closed"] ELSE file

\* defer js.Close(), registered once the joystick is open
CloseJoystick(handle) == IF handle = "open" THEN "closed" ELSE handle

-----------------------------------------------------------------------------
(* The clock.  A timer never fires early; how late it fires is up to the   *)
(* scheduler.                                                              *)

JoystickPause == 25
TickPeriod == 100
AddressChangePause == 125
JoystickQueue == 20

\* the clock moves in steps of the shortest duration the program sleeps for
Quantum == JoystickPause

MaxTime == 225

\* where main's goroutine, and with it the process, has stopped for good
Halted == {"unit", "exit1", "panic", "crash", "exited"}

\* the steps before the loops start; they take less than one step of the
\* clock, and so does the exit of the process once main has returned
Startup == {"openJoystick", "openSerial", "createRecord", "openPlayback"}

\* Time passes; the ticker, once started, drops a tick into its one-slot
\* channel each period (a tick that finds the slot full is lost).
TickBy(step, limit) ==
    /\ pc \notin Halted \cup Startup \cup {"closing", "returned"}
    /\ now + step <= limit
    /\ now' = now + step
    /\ jsTicker' = IF jsTicker.on /\ now + step >= jsTicker.next
                     THEN [jsTicker EXCEPT !.next = @ + TickPeriod,
                                           !.pending = TRUE]
                     ELSE jsTicker
    /\ UNCHANGED <<unitVars, pc, conf, serialEnabled, tty, record, console,
                   resetTimer, startTime, lastMessage, js, jsObserver, poller,
                   stdinObserver, allowAddressChange, rearm, playVars>>

Tick ==TickBy(Quantum, MaxTime)

\* main has returned: the runtime ends the process and every goroutine.
ProcessExit ==
    /\ pc = "returned"
    /\ pc' = "exited"
    /\ UNCHANGED <<unitVars, now, conf, serialEnabled, tty, liveVars, playVars>>

-----------------------------------------------------------------------------
(* The live control loop: interactive and its goroutines.                  *)

\* what the device receives: the seven bytes, stamped with the time of the write
Written(message) == [message |-> message, at |-> now]

IdleSnapshot == Snapshot(NoAxes, {})

\* The readings js.Read delivers: at rest, two pan deflections that map to
\* the same speed byte, the address buttons, the timer reset, a mark trigger.
LiveSnapshots ==
    {IdleSnapshot,
     AxisState(ptz.PanX.Index, 20000),
     AxisState(ptz.PanX.Index, 20100),
     Snapshot(NoAxes, ptz.IncPelcoAddr),
     Snapshot(NoAxes, ptz.DecPelcoAddr),
     Snapshot(NoAxes, ptz.ResetTimer),
     AxisState(ptz.MarkLeft.Index, AxisMax)}

LiveAddresses == {0, 255}

ConfigMaxSpeed == 47

\* config.Load with no --maxspeed: int32(47) * MaxSpeed / 100
DefaultMaxSpeed == (ConfigMaxSpeed * ConfigMaxSpeed) \div 100

LiveInit ==
    /\ call = NoCall
    /\ ret = NoCall
    /\ build \in Builds
    /\ pc = "openJoystick"
    /\ \E address \in LiveAddresses, enabled \in BOOLEAN :
          ProgFresh(address, DefaultMaxSpeed, enabled)
    /\ LiveFresh
    /\ PlayFresh(<<>>)

\* joystick.Open: on failure the loop listens to a channel nobody writes to,
\* otherwise the ticker and the poller start.
OpenJoystick ==
    /\ pc = "openJoystick"
    /\ pc' = "openSerial"
    /\ \E opened \in BOOLEAN :
        IF opened
          THEN /\ js' = "open"
               /\ jsTicker' = [on |-> TRUE, next |-> now + TickPeriod,
                               pending |-> FALSE]
               /\ poller' = [poller EXCEPT !.pc = "wait"]
          ELSE UNCHANGED <<js, jsTicker, poller>>
    /\ UNCHANGED <<unitVars, now, conf, serialEnabled, tty, record, console,
                   resetTimer, startTime, lastMessage, jsObserver,
                   stdinObserver, allowAddressChange, rearm, playVars>>

\* serialPortAvailable, then the open: a failed access check is only
\* reported; a failed open ends the process with status 1.
OpenSerial ==
    /\ pc = "openSerial"
    /\ \E hasSerialAccess \in BOOLEAN, opened \in BOOLEAN :
        IF serialEnabled /\ hasSerialAccess
          THEN IF opened
                 THEN /\ tty' = [tty EXCEPT !.state = "open"]
                      /\ pc' = "createRecord"
                 ELSE /\ pc' = "exit1"
                      /\ UNCHANGED tty
          ELSE /\ pc' = "createRecord"
               /\ UNCHANGED tty
    /\ UNCHANGED <<unitVars, now, conf, serialEnabled, liveVars, playVars>>

\* os.Create of the record file (a failure panics and the deferred closes
\* run), the priming of the rate-limit channel, and the loop's locals.
CreateRecord ==
    /\ pc = "createRecord"
    /\ \E created \in BOOLEAN :
        IF created
          THEN /\ record' = [record EXCEPT !.state = "open"]
               /\ allowAddressChange' = 1
               /\ startTime' = now
               /\ lastMessage' = ZeroMessage
               /\ pc' = "loop"
               /\ UNCHANGED <<tty, js>>
          ELSE /\ pc' = "panic"
               /\ tty' = CloseFile(tty)
               /\ js' = CloseJoystick(js)
               /\ UNCHANGED <<record, allowAddressChange, startTime, lastMessage>>
    /\ UNCHANGED <<unitVars, now, conf, serialEnabled, console, resetTimer,
                   jsObserver, jsTicker, poller, stdinObserver, rearm, playVars>>

\* listenFile's goroutine scanned a line that is not empty and offers it.
StdinLine ==
    /\ pc \notin Halted
    /\ stdinObserver = "open"
    /\ stdinObserver' = "line"
    /\ UNCHANGED <<unitVars, progVars, record, console, resetTimer, startTime,
                   lastMessage, js, jsObserver, jsTicker, poller,
                   allowAddressChange, rearm, playVars>>

\* listenFile's goroutine scanned an empty line or met the end of the input,
\* and closes the channel.
StdinEnd ==
    /\ pc \notin Halted
    /\ stdinObserver = "open"
    /\ stdinObserver' = "closed"
    /\ UNCHANGED <<unitVars, progVars, record, console, resetTimer, startTime,
                   lastMessage, js, jsObserver, jsTicker, poller,
                   allowAddressChange, rearm, playVars>>

\* a receive that a closed channel does not make ready
StopOnLineOnly == stdinObserver = "line"

\* <-stdinObserver can proceed: a line is offered, or the channel is closed
StopReady == stdinObserver \in {"line", "closed"}

\* case <-stdinObserver: return.  The deferred closes run.
StopOnStdin ==
    /\ pc = "loop"
    /\ StopReady
    /\ pc' = "returned"
    /\ record' = CloseFile(record)
    /\ tty' = CloseFile(tty)
    /\ js' = CloseJoystick(js)
    /\ UNCHANGED <<unitVars, now, conf, serialEnabled, console, resetTimer,
                   startTime, lastMessage, jsObserver, jsTicker, poller,
                   stdinObserver, allowAddressChange, rearm, playVars>>

\* an address change that asks for no permit
AddressAfterUnlimited(sample) ==
    IF isPressed(sample, ptz.DecPelcoAddr) THEN conf.Address - 1
    ELSE IF isPressed(sample, ptz.IncPelcoAddr) THEN conf.Address + 1
    ELSE conf.Address

\* limitChange: with a permit in the channel the change is made and a
\* goroutine is started that returns the permit 125 ms later.
AddressAfter(sample) ==
    IF allowAddressChange = 0 THEN conf.Address
    ELSE IF isPressed(sample, ptz.DecPelcoAddr) THEN conf.Address - 1
    ELSE IF isPressed(sample, ptz.IncPelcoAddr) THEN conf.Address + 1
    ELSE conf.Address

AddressPressed(sample) ==
    isPressed(sample, ptz.DecPelcoAddr) \/ isPressed(sample, ptz.IncPelcoAddr)

\* a limitChange that starts its goroutine whether or not it got a permit
PermitNotNeeded(sample) == AddressPressed(sample)

\* limitChange's select took the permit: case <-allowAddressChange
PermitTaken(sample) == AddressPressed(sample) /\ allowAddressChange = 1

MarkLines(sample) ==
    (IF isMarkTriggered(sample, ptz.MarkLeft) THEN <<MarkLeftLine>> ELSE <<>>)
      \o (IF isMarkTriggered(sample, ptz.MarkRight) THEN <<MarkRightLine>> ELSE <<>>)

RECURSIVE WriteAll(_, _)
WriteAll(file, texts) ==
    IF texts = <<>> THEN file
    ELSE WriteAll(WriteTo(file, Head(texts)), Tail(texts))

\* a loop that compares nothing and emits every frame
EmitAlways(message) == TRUE

\* if lastMessage != message
ShouldEmit(message) == lastMessage # message

\* a reset that lasts only while the button is held
ResetOnlyWhilePressed(sample) == isPressed(sample, ptz.ResetTimer)

\* resetTimer once the sample's reset button has been looked at
ResetPending(sample) == resetTimer \/ isPressed(sample, ptz.ResetTimer)

\* case state := <-jsObserver, the whole body of it.
HandleSample ==
    /\ pc = "loop"
    /\ jsObserver # <<>>
    /\ LET sample == Head(jsObserver)
           took == PermitTaken(sample)
           address == AddressAfter(sample)
           reset == ResetPending(sample)
           message == LiveMessage(address, sample, conf.MaxSpeed)
           millis == IF reset THEN 0 ELSE now - startTime
           marked == WriteAll(record, MarkLines(sample))
       IN /\ jsObserver' = Tail(jsObserver)
          /\ conf' = [conf EXCEPT !.Address = address]
          /\ allowAddressChange' = IF took THEN 0 ELSE allowAddressChange
          /\ rearm' = IF took THEN rearm \cup {now + AddressChangePause} ELSE rearm
          /\ IF ShouldEmit(message)
               THEN /\ resetTimer' = FALSE
                    /\ startTime' = now
                    /\ console' = Append(console, RecordLine(message, millis))
                    /\ IF serialEnabled /\ tty.state = "nil"
                         \* a method call through a nil *serial.Port
                         THEN /\ pc' = "panic"
                              /\ record' = CloseFile(WriteTo(marked,
                                               RecordLine(message, millis)))
                              /\ js' = CloseJoystick(js)
                              /\ UNCHANGED <<tty, lastMessage>>
                         ELSE /\ record' = WriteTo(marked, RecordLine(message, millis))
                              /\ tty' = IF serialEnabled
                                          THEN WriteTo(tty, Written(message))
                                          ELSE tty
                              /\ lastMessage' = message
                              /\ UNCHANGED <<pc, js>>
               ELSE /\ resetTimer' = reset
                    /\ record' = marked
                    /\ UNCHANGED <<pc, tty, js, console, startTime, lastMessage>>
    /\ UNCHANGED <<unitVars, now, serialEnabled, jsTicker, poller,
                   stdinObserver, playVars>>

\* listenJoystick's goroutine takes a tick and reads the joystick; a read
\* error panics in the goroutine, which ends the process.
PollerReadFrom(snapshots) ==
    /\ pc \notin Halted
    /\ poller.pc = "wait"
    /\ jsTicker.pending
    /\ jsTicker' = [jsTicker EXCEPT !.pending = FALSE]
    /\ \/ /\ \E sample \in snapshots :
               poller' = [poller EXCEPT !.pc = "send", !.state = sample]
          /\ UNCHANGED pc
       \/ /\ pc' = "crash"
          /\ UNCHANGED poller
    /\ UNCHANGED <<unitVars, now, conf, serialEnabled, tty, record, console,
                   resetTimer, startTime, lastMessage, js, jsObserver,
                   stdinObserver, allowAddressChange, rearm, playVars>>

PollerRead == PollerReadFrom(LiveSnapshots)

\* io <- state: blocks while the 20 slots are taken; then the 25 ms sleep starts.
PollerSend ==
    /\ pc \notin Halted
    /\ poller.pc = "send"
    /\ Len(jsObserver) < JoystickQueue
    /\ jsObserver' = Append(jsObserver, poller.state)
    /\ poller' = [poller EXCEPT !.pc = "sleep", !.wake = now + JoystickPause]
    /\ UNCHANGED <<unitVars, progVars, record, console, resetTimer, startTime,
                   lastMessage, js, jsTicker, stdinObserver, allowAddressChange,
                   rearm, playVars>>

PollerWake ==
    /\ pc \notin Halted
    /\ poller.pc = "sleep"
    /\ now >= poller.wake
    /\ poller' = [poller EXCEPT !.pc = "wait"]
    /\ UNCHANGED <<unitVars, progVars, record, console, resetTimer, startTime,
                   lastMessage, js, jsObserver, jsTicker, stdinObserver,
                   allowAddressChange, rearm, playVars>>

\* limitChange's goroutine, 125 ms on: the permit goes back into the channel.
Rearm ==
    /\ pc \notin Halted
    /\ \E wake \in rearm :
        /\ now >= wake
        /\ allowAddressChange = 0
        /\ allowAddressChange' = 1
        /\ rearm' = rearm \ {wake}
    /\ UNCHANGED <<unitVars, progVars, record, console, resetTimer, startTime,
                   lastMessage, js, jsObserver, jsTicker, poller, stdinObserver,
                   playVars>>

Next ==
    \/ OpenJoystick
    \/ OpenSerial
    \/ CreateRecord
    \/ StdinLine
    \/ StdinEnd
    \/ StopOnStdin
    \/ HandleSample
    \/ PollerRead
    \/ PollerSend
    \/ PollerWake
    \/ Rearm
    \/ Tick
    \/ ProcessExit

Spec == LiveInit /\ [][Next]_vars

\* The live loop over three ticks of the joystick ticker, with the snapshots
\* that bear on the session clock: three frames in a row that differ, and
\* the reset button (whose frame is the idle one).  No snapshot presses an
\* address button, so limitChange is never entered and its goroutine, which
\* would put the permit back, is never started.
ClockSnapshots ==
    {IdleSnapshot,
     AxisState(ptz.PanX.Index, 20000),
     Snapshot(NoAxes, ptz.ResetTimer)}

ClockTime == 3 * TickPeriod

ClockTick == TickBy(Quantum, ClockTime)

ClockPoll == PollerReadFrom(ClockSnapshots)

ClockNext ==
    \/ OpenJoystick
    \/ OpenSerial
    \/ CreateRecord
    \/ StdinLine
    \/ StdinEnd
    \/ StopOnStdin
    \/ HandleSample
    \/ ClockPoll
    \/ PollerSend
    \/ PollerWake
    \/ ClockTick
    \/ ProcessExit

ClockSpec == LiveInit /\ [][ClockNext]_vars

\* The live loop for as many ticks as fill jsObserver and one more, with a
\* joystick left alone and a clock that is looked at once per tick.
QueueSnapshots == {IdleSnapshot}

QueueTime == (JoystickQueue + 1) * TickPeriod

QueueTick == TickBy(TickPeriod, QueueTime)

QueuePoll == PollerReadFrom(QueueSnapshots)

QueueNext ==
    \/ OpenJoystick
    \/ OpenSerial
    \/ CreateRecord
    \/ StdinLine
    \/ StdinEnd
    \/ StopOnStdin
    \/ HandleSample
    \/ QueuePoll
    \/ PollerSend
    \/ PollerWake
    \/ QueueTick
    \/ ProcessExit

\* one of LiveInit's states: address 0, no serial port configured
QueueInit ==
    /\ LiveInit
    /\ build = "wrap"
    /\ conf.Address = 0
    /\ ~serialEnabled

QueueSpec == QueueInit /\ [][QueueNext]_vars

\* The live loop under a fair scheduler: the startup steps are taken, and
\* select, which picks among its ready cases at random, does not pass over
\* a stdinObserver that stays ready for ever.
FairSpec ==
    /\ Spec
    /\ WF_vars(OpenJoystick)
    /\ WF_vars(OpenSerial)
    /\ WF_vars(CreateRecord)
    /\ WF_vars(StopOnStdin)

-----------------------------------------------------------------------------
(* The replay engine: playback and sendDelayedMessages.                    *)

IsSpace(c) == c \in {" ", "\t"}

RECURSIVE TrimLeft(_)
TrimLeft(text) ==
    IF text # <<>> /\ IsSpace(Head(text)) THEN TrimLeft(Tail(text)) ELSE text

RECURSIVE TrimRight(_)
TrimRight(text) ==
    IF text # <<>> /\ IsSpace(text[Len(text)])
      THEN TrimRight(SubSeq(text, 1, Len(text) - 1))
      ELSE text

\* strings.TrimSpace
TrimSpace(text) == TrimRight(TrimLeft(text))

\* strings.HasPrefix(text, "#")
IsComment(text) == text # <<>> /\ Head(text) = "#"

\* the length of the run of non-space characters text starts with
RECURSIVE WordLen(_)
WordLen(text) ==
    IF text = <<>> \/ IsSpace(Head(text)) THEN 0 ELSE 1 + WordLen(Tail(text))

\* strings.Fields: the maximal runs of non-space characters
RECURSIVE Fields(_)
Fields(text) ==
    LET rest == TrimLeft(text)
        n == WordLen(rest)
    IN IF rest = <<>> THEN <<>>
       ELSE <<SubSeq(rest, 1, n)>> \o Fields(SubSeq(rest, n + 1, Len(rest)))

DigitValue(c) == IF \E d \in 1..10 : DecDigits[d] = c
                   THEN (CHOOSE d \in 1..10 : DecDigits[d] = c) - 1
                   ELSE -1

RECURSIVE ParseDigits(_, _)
ParseDigits(word, acc) ==
    IF word = <<>> THEN acc
    ELSE ParseDigits(Tail(word), 10 * acc + DigitValue(Head(word)))

\* strconv.ParseUint(word, 10, 64): digits only, no sign, not empty.  (The
\* range error for values of 2^64 and more is beyond the inputs used here.)
ParseUint(word) ==
    IF word = <<>>
         \/ \E j \in 1..Len(word) : DigitValue(word[j]) < 0
      THEN [value |-> 0, err |-> "ErrSyntax"]
      ELSE [value |-> ParseDigits(word, 0), err |-> "nil"]

\* a loop body that lets a packet through whatever decodeMessage reports
ParseLineNoHexCheck(line) ==
    LET text == TrimSpace(line)
        words == Fields(text)
    IN IF IsComment(text) THEN [kind |-> "comment", pkg |-> NoPackage]
       ELSE IF Len(words) < 3 THEN [kind |-> "Too few fields", pkg |-> NoPackage]
       ELSE IF words[1] # Tag THEN [kind |-> "Invalid protocol", pkg |-> NoPackage]
       ELSE IF ParseUint(words[3]).err # "nil"
              THEN [kind |-> "Invalid duration", pkg |-> NoPackage]
       ELSE [kind |-> "ok",
             pkg |-> [Message |-> decodeMessage(words[2]).message,
                      Delay |-> ParseUint(words[3]).value]]

\* One line of the input as the loop body of playback treats it: skipped as
\* a comment, rejected with a message, or turned into a DelayedMessage.  The
\* Delay is kept in milliseconds.
ParseLine(line) ==
    LET text == TrimSpace(line)
        words == Fields(text)
    IN IF IsComment(text) THEN [kind |-> "comment", pkg |-> NoPackage]
       ELSE IF Len(words) < 3 THEN [kind |-> "Too few fields", pkg |-> NoPackage]
       ELSE IF words[1] # Tag THEN [kind |-> "Invalid protocol", pkg |-> NoPackage]
       ELSE IF decodeMessage(words[2]).err # "nil"
              THEN [kind |-> "Invalid packet", pkg |-> NoPackage]
       ELSE IF ParseUint(words[3]).err # "nil"
              THEN [kind |-> "Invalid duration", pkg |-> NoPackage]
       ELSE [kind |-> "ok",
             pkg |-> [Message |-> decodeMessage(words[2]).message,
                      Delay |-> ParseUint(words[3]).value]]

\* Lines of a record file and lines that are none.
FrameOne == LiveMessage(1, IdleSnapshot, DefaultMaxSpeed)

FrameTwo == LiveMessage(1, AxisState(ptz.PanX.Index, 20000), DefaultMaxSpeed)

FrameThree == LiveMessage(2, Snapshot(NoAxes, ptz.ZoomIn), DefaultMaxSpeed)

LongDelay == 200

ShortDelay == 100

\* lines that parse: three frames, one of them with blanks around it
ValidLines ==
    {RecordLine(FrameOne, 0),
     RecordLine(FrameTwo, LongDelay),
     Space \o Space \o RecordLine(FrameThree, ShortDelay) \o Space}

\* lines that are skipped or rejected: a comment, an empty line, two fields,
\* another protocol, no hex, hex of two bytes, a signed delay
OtherLines ==
    {MarkLeftLine,
     <<>>,
     Tag \o Space \o FormatHex(FrameOne),
     <<"p", "e", "l", "c", "o">> \o Space \o FormatHex(FrameOne) \o Space \o <<"0">>,
     Tag \o Space \o <<"z", "z">> \o Space \o <<"1", "0", "0">>,
     Tag \o Space \o <<"f", "f", "0", "1">> \o Space \o <<"5", "0">>,
     Tag \o Space \o FormatHex(FrameTwo) \o Space \o <<"-", "5">>}

LineSamples == ValidLines \cup OtherLines

MaxLines == 2

\* The inputs: every file of up to MaxLines lines that parse, and every other
\* line alone, before, after and between lines that parse.
PlaybackInputs ==
    UNION {[1..n -> ValidLines] : n \in 0..MaxLines}
      \cup {<<line>> : line \in OtherLines}
      \cup {<<line, RecordLine(FrameTwo, LongDelay)>> : line \in OtherLines}
      \cup {<<RecordLine(FrameOne, 0), line>> : line \in OtherLines}
      \cup {<<RecordLine(FrameOne, 0), line, RecordLine(FrameTwo, LongDelay)>> :
               line \in OtherLines}

PlaybackInit ==
    /\ call = NoCall
    /\ ret = NoCall
    /\ build = "wrap"    \* playback converts no float
    /\ pc = "openPlayback"
    /\ \E enabled \in BOOLEAN : ProgFresh(0, DefaultMaxSpeed, enabled)
    /\ LiveFresh
    /\ \E lines \in PlaybackInputs : PlayFresh(lines)

\* playback up to its loop: the serial port (a failed open panics), the
\* unbuffered channel and the sender goroutine.
OpenPlayback ==
    /\ pc = "openPlayback"
    /\ \E hasSerialAccess \in BOOLEAN, opened \in BOOLEAN :
        IF serialEnabled /\ hasSerialAccess /\ ~opened
          THEN /\ pc' = "panic"
               /\ UNCHANGED <<tty, messageChannel, sender>>
          ELSE /\ pc' = "scan"
               /\ tty' = IF serialEnabled /\ hasSerialAccess
                           THEN [tty EXCEPT !.state = "open"]
                           ELSE tty
               /\ messageChannel' = [state |-> "open", offer |-> <<>>]
               /\ sender' = [sender EXCEPT !.pc = "first"]
    /\ UNCHANGED <<unitVars, now, conf, serialEnabled, liveVars, input,
                   lineCount, rejected, built, sends>>

\* One turn of the scan loop: the next line is skipped, rejected, or offered
\* on messageChannel, where main blocks until the sender takes it.
ScanLine ==
    /\ pc = "scan"
    /\ input # <<>>
    /\ LET parsed == ParseLine(Head(input))
       IN /\ input' = Tail(input)
          /\ lineCount' = IF parsed.kind = "comment" THEN lineCount
                                                     ELSE lineCount + 1
          /\ rejected' = IF parsed.kind \in {"comment", "ok"} THEN rejected
                         ELSE Append(rejected, [kind |-> parsed.kind,
                                                line |-> lineCount + 1])
          /\ built' = IF parsed.kind = "ok" THEN Append(built, parsed.pkg)
                                              ELSE built
          /\ IF parsed.kind = "ok"
               THEN /\ messageChannel' = [messageChannel EXCEPT
                                             !.offer = <<parsed.pkg>>]
                    /\ pc' = "offer"
               ELSE UNCHANGED <<messageChannel, pc>>
    /\ UNCHANGED <<unitVars, now, conf, serialEnabled, tty, liveVars, sender,
                   sends>>

\* The input is exhausted: playback returns, and the deferred call
\* registered last runs first and closes messageChannel.
PlaybackReturn ==
    /\ pc = "scan"
    /\ input = <<>>
    /\ pc' = "closing"
    /\ messageChannel' = [messageChannel EXCEPT !.state = "closed"]
    /\ UNCHANGED <<unitVars, now, conf, serialEnabled, tty, liveVars, input,
                   lineCount, rejected, built, sender, sends>>

\* The other deferred call, tty.Close(), where a port was opened; then
\* playback is back in main.
CloseTtyDeferred ==
    /\ pc = "closing"
    /\ pc' = "returned"
    /\ tty' = CloseFile(tty)
    /\ UNCHANGED <<unitVars, now, conf, serialEnabled, liveVars, playVars>>

\* a sender that does not sleep
NoSleep(delay) == now

\* time.Sleep(pkg.Delay): the goroutine runs again no earlier than this
SleepUntil(delay) == now + delay

\* pkg = <-c, the first receive: from main's offer, or the zero value once
\* the channel is closed.  The send that follows waits for nothing.
SenderFirst ==
    /\ pc \notin Halted
    /\ sender.pc = "first"
    /\ \/ /\ messageChannel.offer # <<>>
          /\ sender' = [pc |-> "send", pkg |-> Head(messageChannel.offer),
                        wake |-> now]
          /\ messageChannel' = [messageChannel EXCEPT !.offer = <<>>]
          /\ pc' = "scan"
       \/ /\ messageChannel.offer = <<>>
          /\ messageChannel.state = "closed"
          /\ sender' = [pc |-> "send", pkg |-> NoPackage, wake |-> now]
          /\ UNCHANGED <<messageChannel, pc>>
    /\ UNCHANGED <<unitVars, now, conf, serialEnabled, tty, liveVars, input,
                   lineCount, rejected, built, sends>>

\* for pkg = range c: the next receive and the start of the sleep, or the end
\* of the loop once the channel is closed.
SenderReceive ==
    /\ pc \notin Halted
    /\ sender.pc = "recv"
    /\ \/ /\ messageChannel.offer # <<>>
          /\ sender' = [pc |-> "send", pkg |-> Head(messageChannel.offer),
                        wake |-> SleepUntil(Head(messageChannel.offer).Delay)]
          /\ messageChannel' = [messageChannel EXCEPT !.offer = <<>>]
          /\ pc' = "scan"
       \/ /\ messageChannel.offer = <<>>
          /\ messageChannel.state = "closed"
          /\ sender' = [sender EXCEPT !.pc = "done"]
          /\ UNCHANGED <<messageChannel, pc>>
    /\ UNCHANGED <<unitVars, now, conf, serialEnabled, tty, liveVars, input,
                   lineCount, rejected, built, sends>>

\* sendMessage once the sleep, if any, is over: a nil port is skipped, an
\* open one is written to, a closed one refuses the write.
SenderSend ==
    /\ pc \notin Halted
    /\ sender.pc = "send"
    /\ now >= sender.wake
    /\ tty' = WriteTo(tty, Written(sender.pkg.Message))
    /\ sends' = Append(sends, [Message |-> sender.pkg.Message,
                               Delay |-> sender.pkg.Delay,
                               first |-> (sends = <<>>),
                               at |-> now])
    /\ sender' = [sender EXCEPT !.pc = "recv"]
    /\ UNCHANGED <<unitVars, pc, now, conf, serialEnabled, liveVars, input,
                   lineCount, rejected, built, messageChannel>>

PlaybackNext ==
    \/ OpenPlayback
    \/ ScanLine
    \/ PlaybackReturn
    \/ CloseTtyDeferred
    \/ SenderFirst
    \/ SenderReceive
    \/ SenderSend
    \/ Tick
    \/ ProcessExit

PlaybackSpec == PlaybackInit /\ [][PlaybackNext]_vars

-----------------------------------------------------------------------------
(* Claims about the codec (checked under CodecSpec).                       *)

ByteSum(message) ==
    message[ADDR] + message[COMMAND_1] + message[COMMAND_2]
      + message[DATA_1] + message[DATA_2]

\* byte 6 is the 8-bit sum of bytes 1..5
ChecksumHolds(message) ==
    /\ message[CHECKSUM] \in Byte
    /\ \E k \in 0..4 : ByteSum(message) = 256 * k + message[CHECKSUM]

\* C1: for every address a in 0..255, pelcoChecksum(pelcoTo(pelcoCreate(), a))
\* has byte 0 = 0xFF, byte 1 = a and byte 6 = the 8-bit sum of bytes 1..5; for
\* any frame contents pelcoChecksum sets byte 6 to the 8-bit sum of the
\* frame's bytes 1..5; and every frame the live loop builds for emission
\* (lines 289-292) satisfies the checksum equation.
C1_ChecksumEquation ==
    /\ (call.fn = "pelcoTo" /\ call.addr \in Byte) =>
          /\ ret.message[SYNC] = 255
          /\ ret.message[ADDR] = call.addr
          /\ ChecksumHolds(ret.message)
    /\ call.fn = "pelcoChecksum" =>
          /\ ChecksumHolds(ret.message)
          /\ ByteSum(ret.message) = ByteSum(call.buffer)
    /\ call.fn = "LiveMessage" =>
          /\ ret.message[SYNC] = 255
          /\ ChecksumHolds(ret.message)

\* C1's case: the live loop built a frame for address 255 with a pan speed,
\* so that bytes 1..5 sum past 255 and the checksum wraps.
C1_Witness ==
    /\ call.fn = "LiveMessage"
    /\ call.addr = 255
    /\ ret.message[ADDR] = 255
    /\ ret.message[DATA_1] > 0
    /\ ByteSum(ret.message) > 255
    /\ ret.message[CHECKSUM] = ByteSum(ret.message) - 256

IsLowerHex(c) == fromHexChar(c) >= 0 /\ c \notin {"A", "B", "C", "D", "E", "F"}

\* C6: for every 7-byte frame f, decodeMessage of the 14-character lowercase
\* hex text that %x writes for f returns f, all 7 bytes, and no error.
C6_HexRoundTrip ==
    call.fn = "FormatHex;decodeMessage" =>
        /\ Len(call.text) = 14
        /\ \A j \in 1..Len(call.text) : IsLowerHex(call.text[j])
        /\ ret.err = "nil"
        /\ \A i \in FrameIdx : ret.message[i] = call.message[i]

\* C6's case: a frame with a byte below 16 (a leading zero digit) and a byte
\* with two letter digits went through the round trip.
C6_Witness ==
    /\ call.fn = "FormatHex;decodeMessage"
    /\ call.message[ADDR] = 10
    /\ call.message[SYNC] = 229
    /\ ret.message[SYNC] = 229

\* the text is an even number of hex digits that decode to exactly 7 bytes
DecodesToSeven(text) ==
    /\ Len(text) = 14
    /\ \A j \in 1..Len(text) : fromHexChar(text[j]) >= 0

\* C7: decodeMessage fails with an error for every text that is not valid hex
\* or that decodes to a byte count other than exactly 7, and returns a frame
\* only for texts that decode to exactly 7 bytes.
C7_RejectsAllButSevenBytes ==
    call.fn \in {"decodeMessage", "FormatHex;decodeMessage"} =>
        (ret.err = "nil" <=> DecodesToSeven(call.text))

-----------------------------------------------------------------------------
(* Claims about the normalizer and the mapper (checked under MapperSpec).  *)

\* the raw value after the spec's inversion
Oriented(axis, raw) == IF axis.Inverted THEN -raw ELSE raw

\* sign(v) * (|v| - deadzone) / (max - deadzone) as a float32
ScaledValue(axis, v) ==
    IF AbsInt(v) = axis.Deadzone THEN FromInt(0)
    ELSE F32Div(v < 0, AbsInt(v) - axis.Deadzone, axis.Max - axis.Deadzone)

FNegate(f) == [f EXCEPT !.neg = ~f.neg]

\* C8: for every axis spec and raw value r with -max <= r <= max, with v the
\* raw value after inversion: whenever |v| is not below the deadzone,
\* normalizeAxis returns sign(v) * (|v| - deadzone) / (max - deadzone); the
\* result lies in [-1, 1], has magnitude 1 at |v| = max, and inverting the
\* spec negates the result.
C8_ScaledOutsideDeadzone ==
    (/\ call.fn = "normalizeAxis"
     /\ AbsInt(call.raw) <= call.axis.Max
     /\ AbsInt(call.raw) >= call.axis.Deadzone) =>
        LET v == Oriented(call.axis, call.raw)
            flipped == [call.axis EXCEPT !.Inverted = ~call.axis.Inverted]
        IN /\ FEq(ret.value, ScaledValue(call.axis, v))
           /\ FInUnit(ret.value)
           /\ AbsInt(v) = call.axis.Max => FIsUnit(ret.value)
           /\ FEq(normalizeAxis(AxisState(flipped.Index, call.raw), flipped),
                  FNegate(ret.value))

MenuPressed(snap) == isPressed(snap, ptz.OpenMenu)

\* C9: for every axis spec, inverted or not, and every raw value whose
\* magnitude is strictly below the spec's deadzone (raw 0 included),
\* normalizeAxis returns exactly 0 (a zero of either sign: Go compares -0.0
\* equal to 0); so the frame joystickToPelco builds for the live loop has no
\* direction bit and speed 0 for that axis.  When the menu button is held the
\* frame is the preset-95 frame whatever the axes read, and no axis
\* contributes to it.
C9_DeadzoneIsZero ==
    /\ (call.fn = "normalizeAxis" /\ AbsInt(call.raw) < call.axis.Deadzone) =>
          FIsZero(ret.value)
    /\ call.fn = "joystickToPelco" =>
          LET x == call.state.AxisData[ptz.PanX.Index]
              y == call.state.AxisData[ptz.PanY.Index]
          IN IF MenuPressed(call.state)
               THEN /\ ret.message[COMMAND_2] = 3
                    /\ ret.message[DATA_1] = 0
                    /\ ret.message[DATA_2] = 95
               ELSE /\ AbsInt(x) < ptz.PanX.Deadzone =>
                         /\ ~HasBit(ret.message[COMMAND_2], 1)
                         /\ ~HasBit(ret.message[COMMAND_2], 2)
                         /\ ret.message[DATA_1] = 0
                    /\ AbsInt(y) < ptz.PanY.Deadzone =>
                         /\ ~HasBit(ret.message[COMMAND_2], 3)
                         /\ ~HasBit(ret.message[COMMAND_2], 4)
                         /\ ret.message[DATA_2] = 0

\* C9's case: the pan axis reads just inside the deadzone while the tilt axis
\* is at full deflection, and the frame moves in tilt only.
C9_Witness ==
    /\ call.fn = "joystickToPelco"
    /\ ~MenuPressed(call.state)
    /\ call.state.AxisData[ptz.PanX.Index] = StickDeadzone - 1
    /\ call.state.AxisData[ptz.PanY.Index] = AxisMax
    /\ call.maxSpeed = 47
    /\ ret.message[DATA_1] = 0
    /\ ret.message[DATA_2] = 47
    /\ HasBit(ret.message[COMMAND_2], 4)

\* C5: whatever panX, panY, zoom, openIris, closeIris and maxSpeed are, with
\* openMenu true pelcoApplyJoystick returns command1 = 0x00, command2 = 0x03,
\* data1 = 0x00, data2 = 0x5F, and leaves the sync and address bytes and the
\* checksum byte as they were.
C5_MenuPriority ==
    (call.fn = "pelcoApplyJoystick" /\ call.openMenu) =>
        /\ ret.message[COMMAND_1] = 0
        /\ ret.message[COMMAND_2] = 3
        /\ ret.message[DATA_1] = 0
        /\ ret.message[DATA_2] = 95
        /\ ret.message[SYNC] = call.buffer[SYNC]
        /\ ret.message[ADDR] = call.buffer[ADDR]
        /\ ret.message[CHECKSUM] = call.buffer[CHECKSUM]

\* C5's case: the menu input together with a pan, a tilt, a zoom and an iris
\* input at full speed.
C5_Witness ==
    /\ call.fn = "pelcoApplyJoystick"
    /\ call.openMenu /\ call.openIris /\ call.closeIris
    /\ FGtZero(call.panX) /\ FLtZero(call.panY) /\ FLtZero(call.zoom)
    /\ call.maxSpeed = MaxSpeed
    /\ ret.message[COMMAND_2] = 3

\* d = floor(maxSpeed * |f|): d * 2^e <= maxSpeed * m < (d + 1) * 2^e, both
\* sides shifted down to 24 fractional bits when e is larger
IsFloorOfProduct(d, maxSpeed, f) ==
    LET drop == IF f.e > 24 THEN f.e - 24 ELSE 0
        x == ShiftRight(maxSpeed * f.m, drop)
        unit == Pow2(f.e - drop)
    IN /\ d \in 0..maxSpeed
       /\ d * unit <= x
       /\ x < (d + 1) * unit

\* C10: with openMenu false, for every maxSpeed in 0..63 and normalized panX
\* and panY in [-1, 1], pelcoApplyJoystick sets data1 = floor(maxSpeed * |panX|)
\* and data2 = floor(maxSpeed * |panY|), both in 0..maxSpeed; and raw axis
\* value 20000 on the pan axis (max 32767, deadzone 8192, not inverted) with
\* maxSpeed 63 gives pan speed byte 30.
C10_SpeedTruncates ==
    /\ (/\ call.fn = "pelcoApplyJoystick"
        /\ ~call.openMenu
        /\ call.maxSpeed \in 0..63
        /\ FInUnit(call.panX) /\ FInUnit(call.panY)) =>
          /\ IsFloorOfProduct(ret.message[DATA_1], call.maxSpeed, call.panX)
          /\ IsFloorOfProduct(ret.message[DATA_2], call.maxSpeed, call.panY)
    /\ (/\ call.fn = "joystickToPelco"
        /\ ~MenuPressed(call.state)
        /\ call.state.AxisData[ptz.PanX.Index] = 20000
        /\ call.maxSpeed = 63) =>
          ret.message[DATA_1] = 30

\* C10's case: normalized 11808/24575 (raw 20000) at maxSpeed 45 is 21.62,
\* a product with a fractional part above one half, and the byte is 21.
C10_Witness ==
    /\ call.fn = "pelcoApplyJoystick"
    /\ ~call.openMenu
    /\ call.panX = F32Div(FALSE, 20000 - StickDeadzone, AxisMax - StickDeadzone)
    /\ call.maxSpeed = 45
    /\ ret.message[DATA_1] = 21

-----------------------------------------------------------------------------
(* Claims about the live control loop (checked under Spec).                *)

IsFrameLine(line) == Len(line) > Len(Tag) /\ SubSeq(line, 1, Len(Tag)) = Tag

\* the pelco-d lines among the lines of a file, in order
FrameLines(lines) == SelectSeq(lines, IsFrameLine)

\* the 14 hex digits of a pelco-d line
HexOf(line) == SubSeq(line, Len(Tag) + 2, Len(Tag) + 15)

\* no two neighbours of the sequence are equal
NoRepeat(seq) == \A i \in 1..(Len(seq) - 1) : seq[i] # seq[i + 1]

\* the loop took a sample off jsObserver in this step
SampleHandled == Len(jsObserver') < Len(jsObserver)

\* the frame the loop builds for the sample it takes in this step
FrameBuilt == LiveMessage(conf'.Address, Head(jsObserver), conf.MaxSpeed)

\* one more console line and one more pelco-d record line, both for the
\* frame, and the seven bytes written to the device when it is open
EmittedOnce(message) ==
    /\ Len(console') = Len(console) + 1
    /\ HexOf(console'[Len(console')]) = FormatHex(message)
    /\ Len(FrameLines(record'.written)) = Len(FrameLines(record.written)) + 1
    /\ record'.written[Len(record'.written)] = console'[Len(console')]
    /\ tty.state = "open" =>
          tty'.written = Append(tty.written, Written(message))

EmittedNothing ==
    /\ console' = console
    /\ FrameLines(record'.written) = FrameLines(record.written)
    /\ tty' = tty

\* C2: in the live loop, each sample taken emits its frame (console line,
\* record line "pelco-d <hex> <millis>", device write) if and only if the
\* frame's seven bytes differ from the frame emitted before it (from the zero
\* frame, which no built frame equals, when none was); so no two frames
\* emitted in a row are byte-equal, on the console, in the record or on the
\* device.  The "# Mark" comment lines are no frames and are not counted.
C2_DuplicateSuppression ==
    /\ [](/\ NoRepeat([i \in 1..Len(console) |-> HexOf(console[i])])
          /\ NoRepeat([i \in 1..Len(FrameLines(record.written)) |->
                          HexOf(FrameLines(record.written)[i])])
          /\ NoRepeat([i \in 1..Len(tty.written) |-> tty.written[i].message]))
    /\ [][SampleHandled =>
            IF FrameBuilt # lastMessage THEN EmittedOnce(FrameBuilt)
                                        ELSE EmittedNothing]_vars

\* C2's case: two snapshots with the left trigger pulled were taken in a row
\* (each left its comment line) and only the first left a frame: one record
\* line, one console line, one device write.
C2_Witness ==
    /\ pc = "loop"
    /\ Len(record.written) = 3
    /\ record.written[1] = MarkLeftLine
    /\ IsFrameLine(record.written[2])
    /\ record.written[3] = MarkLeftLine
    /\ Len(console) = 1
    /\ Len(tty.written) = 1
    /\ tty.written[1].message = lastMessage

-----------------------------------------------------------------------------
(* Claims about the replay engine (checked under PlaybackSpec).            *)

\* C3: in replay the first frame is sent with no wait, whatever its delay
\* field says: the sender's earliest send time is the moment it received the
\* frame.  Every later frame is sent no earlier than its own delay after the
\* send before it completed; e.g. F2 with delay 200 ms goes out at least
\* 200 ms after F1.
C3_ReplayPacing ==
    /\ (sender.pc = "send" /\ sends = <<>>) => sender.wake <= now
    /\ (sender.pc = "send" /\ sends # <<>>) =>
          sender.wake >= sends[Len(sends)].at + sender.pkg.Delay
    /\ \A i \in 1..Len(sends) :
          /\ sends[i].first <=> i = 1
          /\ i > 1 => sends[i].at >= sends[i - 1].at + sends[i].Delay

\* C3's case: a first frame whose delay field is 100 ms went out at time 0,
\* and the second, with delay 200 ms, reached the device 200 ms or more later.
C3_Witness ==
    /\ Len(sends) = 2
    /\ sends[1].Delay = ShortDelay
    /\ sends[1].at = 0
    /\ sends[2].Message = FrameTwo
    /\ sends[2].Delay = LongDelay
    /\ sends[2].at >= sends[1].at + LongDelay
    /\ Len(tty.written) = 2
    /\ tty.written[2] = [message |-> FrameTwo, at |-> sends[2].at]

\* the lines that parsed: those counted and not rejected
ParsedCount == lineCount - Len(rejected)

\* C4: in replay, every DelayedMessage built from a line that parsed has been
\* taken by the sender and written to the serial port, where one was opened,
\* before the run ends (playback has returned and the process has exited).
C4_EveryParsedFrameSent ==
    (pc = "exited" /\ tty.state # "nil") =>
        /\ Len(sends) >= ParsedCount
        /\ Len(tty.written) >= ParsedCount

-----------------------------------------------------------------------------
(* More claims about the codec (checked under CodecSpec).                  *)

\* C14: for every 7-byte frame f, pelcoChecksum(pelcoChecksum(f)) equals
\* pelcoChecksum(f), and pelcoChecksum changes no byte of f other than byte 6.
C14_ChecksumIdempotent ==
    call.fn = "pelcoChecksum" =>
        /\ ret.again = ret.message
        /\ \A i \in FrameIdx \ {CHECKSUM} : ret.message[i] = call.buffer[i]

\* C14's case: a frame whose checksum byte was wrong and not zero, so that
\* the first application changed byte 6 and the second had a changed frame
\* to work on.
C14_Witness ==
    /\ call.fn = "pelcoChecksum"
    /\ call.buffer[CHECKSUM] # 0
    /\ ret.message[CHECKSUM] # call.buffer[CHECKSUM]
    /\ ret.message[CHECKSUM] # 0
    /\ ret.again = ret.message

-----------------------------------------------------------------------------
(* More claims about the replay engine (checked under PlaybackSpec).       *)

IsHexText(word) ==
    /\ Len(word) % 2 = 0
    /\ \A j \in 1..Len(word) : fromHexChar(word[j]) >= 0

IsUnsigned(word) ==
    /\ word # <<>>
    /\ \A j \in 1..Len(word) : DigitValue(word[j]) >= 0

\* a line that is no comment and fails to parse: fewer than three fields, a
\* tag other than pelco-d, a packet that is not hex, a delay that is no
\* unsigned integer
IsMalformed(line) ==
    LET words == Fields(line)
    IN /\ ~IsComment(TrimSpace(line))
       /\ \/ Len(words) < 3
          \/ words[1] # Tag
          \/ ~IsHexText(words[2])
          \/ ~IsUnsigned(words[3])

\* the scan loop took a line in this step
LineScanned == Len(input') < Len(input)

\* C11: in replay, a line that is no comment and fails to parse (fewer than 3
\* fields, another tag, invalid hex such as "pelco-d zz 100", a delay that is
\* no unsigned integer) gets a warning, no DelayedMessage and no device
\* write, and the scan goes on; the sender, the channel, the port and the
\* clock are left exactly as they were, so the lines around it are sent in
\* the order and with the waits they would have without it.
C11_MalformedLineSkipped ==
    [][(LineScanned /\ IsMalformed(Head(input))) =>
          /\ Len(rejected') = Len(rejected) + 1
          /\ pc' = "scan"
          /\ UNCHANGED <<messageChannel, sender, sends, tty, now>>]_vars

\* C11's case: "pelco-d zz 100" stood between two lines that parse; it was
\* rejected as an invalid packet, and the two frames went out in order, the
\* second 200 ms or more after the first.
C11_Witness ==
    /\ Len(rejected) = 1
    /\ rejected[1] = [kind |-> "Invalid packet", line |-> 2]
    /\ lineCount = 3
    /\ Len(sends) = 2
    /\ sends[1].Message = FrameOne
    /\ sends[2].Message = FrameTwo
    /\ sends[2].at >= sends[1].at + LongDelay
    /\ Len(tty.written) = 2

-----------------------------------------------------------------------------
(* More claims about the live control loop (checked under Spec, and under   *)
(* FairSpec where the claim is about what eventually happens).             *)

\* main's goroutine has left the loop, or never reached it: it returned, or
\* the process ended in os.Exit or a panic
LoopOver == pc \in {"returned", "exited", "exit1", "panic", "crash"}

\* C12: once listenFile's goroutine has seen an empty line or the end of the
\* input and closed stdinObserver, the live loop ends, with samples still
\* arriving on jsObserver or not: the closed channel stays ready, so a fair
\* select takes it.  (A process that has crashed before has ended as well.)
C12_StopEndsLoop ==
    (stdinObserver = "closed") ~> LoopOver

\* C12's case: the stop was published while samples were waiting in
\* jsObserver and the loop was running.
C12_Witness ==
    /\ pc = "loop"
    /\ stdinObserver = "closed"
    /\ Len(jsObserver) >= 1
    /\ poller.pc = "send"

\* C13: at the start of live mode, with the serial port configured (its path
\* is not /dev/null), a port that is absent or not accessible ends the
\* startup, and the loop is never entered; the loop runs without a port only
\* when the port was configured off.
C13_NoLoopWithoutConfiguredPort ==
    pc = "loop" => (serialEnabled => tty.state = "open")

AddressChanged == conf'.Address # conf.Address

\* C15: in the live loop the address changes on a sample only if the permit
\* is in allowAddressChange at that moment, and then by +1 or -1; the change
\* takes the permit and starts one cooldown of 125 ms, no other cooldown
\* being under way; the permit, put there once at startup, comes back only
\* when that cooldown is over;
\* a sample taken while the permit is out leaves the address as it is.  So
\* two changes are at least 125 ms apart, however long a button is held.
C15_AddressRateLimited ==
    /\ [](Cardinality(rearm) <= 1 /\ allowAddressChange \in {0, 1})
    /\ [][AddressChanged =>
            /\ SampleHandled
            /\ AddressPressed(Head(jsObserver))
            /\ conf'.Address \in {conf.Address - 1, conf.Address + 1}
            /\ allowAddressChange = 1 /\ allowAddressChange' = 0
            /\ rearm = {} /\ rearm' = {now + AddressChangePause}]_vars
    /\ [][(SampleHandled /\ allowAddressChange = 0) => ~AddressChanged]_vars
    /\ [][(pc # "createRecord" /\ allowAddressChange = 0
              /\ allowAddressChange' = 1) =>
            \E wake \in rearm : now >= wake /\ rearm' = rearm \ {wake}]_vars

\* C15's case: the increment button was held over two samples less than
\* 125 ms apart; the first changed the address from 0 to 1 and its frame was
\* emitted, the second found no permit, changed nothing and emitted nothing.
C15_Witness ==
    /\ pc = "loop"
    /\ conf.Address = 1
    /\ jsTicker.next = 3 * TickPeriod
    /\ ~jsTicker.pending
    /\ poller.pc = "sleep"
    /\ poller.state = Snapshot(NoAxes, ptz.IncPelcoAddr)
    /\ jsObserver = <<>>
    /\ Len(console) = 1
    /\ allowAddressChange = 0
    /\ \E wake \in rearm : now < wake

\* the frames a file has taken, in the order of the writes
FramesOf(file) == [i \in 1..Len(file.written) |-> file.written[i].message]

\* the frames of the DelayedMessages built from the lines that parsed, in
\* input order
BuiltFrames == [i \in 1..Len(built) |-> built[i].Message]

IsPrefix(short, long) ==
    /\ Len(short) <= Len(long)
    /\ \A i \in 1..Len(short) : short[i] = long[i]

\* C16: in replay, at every point of the run the frames written to the serial
\* port are a prefix of the frames of the lines that parsed so far, in input
\* order: nothing is reordered, duplicated, or written that no line gave.
C16_WrittenIsPrefixOfParsed == IsPrefix(FramesOf(tty), BuiltFrames)

\* the loop is running with the serial port open: every emitted frame is
\* one console line and one write to the port, stamped with its instant
LiveWithPort ==
    /\ pc = "loop"
    /\ serialEnabled
    /\ tty.state = "open"
    /\ Len(tty.written) = Len(console)

\* the console line of emission i carries the time from emission j to it
MeasuredFrom(j, i) ==
    console[i] = RecordLine(tty.written[i].message,
                            tty.written[i].at - tty.written[j].at)

\* emission j restarted the session clock: its line carries 0
CarriesZero(j) == console[j] = RecordLine(tty.written[j].message, 0)

\* C17: in the live loop the milliseconds written with each emitted frame are
\* the time since the session clock last restarted at zero, that is since an
\* earlier emitted frame that carries 0 (or the frame itself), however many
\* frames were emitted in between.
C17_ElapsedSinceReset ==
    LiveWithPort =>
        \A i \in 1..Len(console) :
            \E j \in 1..i : CarriesZero(j) /\ MeasuredFrom(j, i)


\* the sample taken in this step has the reset button down, or a reset was
\* already pending when it was taken
ResetDue == resetTimer \/ isPressed(Head(jsObserver), ptz.ResetTimer)

\* this step put a line for a frame on the console
FrameEmitted == Len(console') = Len(console) + 1

\* C18: in the live loop the reset is pending from the start of the run and
\* from every sample with the reset button down; a sample that emits nothing
\* leaves it pending, the next frame emitted carries 0 and clears it, and
\* nothing else clears it or sets it.
C18_ResetZeroesNextFrame ==
    /\ [](console = <<>> => resetTimer)
    /\ [][(SampleHandled /\ ResetDue /\ FrameEmitted) =>
             /\ console'[Len(console')] = RecordLine(FrameBuilt, 0)
             /\ record'.written[Len(record'.written)] = RecordLine(FrameBuilt, 0)
             /\ ~resetTimer']_vars
    /\ [][(SampleHandled /\ ResetDue /\ ~FrameEmitted) => resetTimer']_vars
    /\ [][(resetTimer /\ ~resetTimer') => (SampleHandled /\ FrameEmitted)]_vars
    /\ [][(~resetTimer /\ resetTimer') =>
             (SampleHandled /\ isPressed(Head(jsObserver), ptz.ResetTimer)
                /\ ~FrameEmitted)]_vars

\* C18's case: the idle frame went out first, carrying 0; a sample with the
\* reset button down followed, whose frame is the idle one again and was not
\* emitted; the frame after it, emitted later, carries 0 and the reset is
\* cleared.
C18_Witness ==
    /\ LiveWithPort
    /\ Len(console) = 2
    /\ tty.written[1].message = LiveMessage(conf.Address, IdleSnapshot, conf.MaxSpeed)
    /\ CarriesZero(1)
    /\ tty.written[2].message =
          LiveMessage(conf.Address, AxisState(ptz.PanX.Index, 20000), conf.MaxSpeed)
    /\ tty.written[2].at = tty.written[1].at + 2 * TickPeriod
    /\ CarriesZero(2)
    /\ ~resetTimer


\* C19: the polling goroutine never waits to publish the snapshot it has
\* read: whenever it holds one, with jsObserver full or not, its publish step
\* can be taken at once.
C19_PublishNeverBlocks ==
    (pc = "loop" /\ poller.pc = "send") => ENABLED PollerSend


\* the handles interactive holds open
OpenHandles ==
    (IF js = "open" THEN {"joystick"} ELSE {})
      \cup (IF tty.state = "open" THEN {"tty"} ELSE {})
      \cup (IF record.state = "open" THEN {"record"} ELSE {})

\* interactive is over: it returned, it called os.Exit(1), or it panicked
LiveEnded == pc \in {"returned", "exited", "exit1", "panic"}

\* C20: however interactive ends (the stop on stdin, the serial port that
\* fails to open after the joystick was opened, the record file that cannot
\* be created), no handle it acquired is left open.
C20_HandlesReleasedOnExit == LiveEnded => OpenHandles = {}


\* C21: while the live loop runs, the permits in allowAddressChange and the
\* goroutines limitChange has started and that have not yet handed the
\* permit back are one in all: the channel holds at most one permit, at most
\* one goroutine is outstanding, and a goroutine whose 125 ms are over finds
\* the slot free, so its send goes through at once.
C21_OnePermitInAll ==
    pc = "loop" =>
        /\ allowAddressChange + Cardinality(rearm) = 1
        /\ allowAddressChange \in {0, 1}
        /\ \A wake \in rearm : now >= wake => ENABLED Rearm

\* C21's case: an address button took the permit, the 125 ms have passed and
\* the goroutine is about to hand the permit back.
C21_Witness ==
    /\ pc = "loop"
    /\ conf.Address \in {1, 254}
    /\ allowAddressChange = 0
    /\ \E wake \in rearm : now >= wake


\* C22: in replay, every frame written to the serial port is the frame of a
\* line that parsed; with no such line nothing is written, the zero frame
\* included, however the sender and playback's return interleave.
C22_OnlyDecodedFramesWritten ==
    \A i \in 1..Len(tty.written) :
        \E k \in 1..Len(built) : tty.written[i].message = built[k].Message

\* the loop's step reaches tty.Write: a frame is emitted with the serial
\* port configured
DeviceWriteReached == SampleHandled /\ FrameEmitted /\ serialEnabled

\* C23: whenever the live loop reaches its device write (a frame is emitted
\* and serialEnabled is true) tty is not nil, also when the access check on
\* the configured port failed at startup.
C23_WriteThroughOpenedHandle == [][DeviceWriteReached => tty.state # "nil"]_vars

=========================================================================
